---- MODULE Spec2Model ----
(***************************************************************************)
(* Sign-in pipeline of learning-raiders: the LoginScreen response handler  *)
(* (src/screens/LoginScreen.tsx), the simple LoginScreen variant, the      *)
(* Firebase-backed AuthProvider with ensureUserDoc, and the Firestore      *)
(* roster / users collections they read and write.                         *)
(*                                                                         *)
(* JavaScript runs one synchronous segment at a time: every action below   *)
(* is one such segment (an effect run up to its first await, or the        *)
(* continuation after one awaited promise settles).                        *)
(***************************************************************************)
EXTENDS Integers, Sequences, FiniteSets, TLC

\* ------------------------------------------------------------------ bounds
MaxRuns == 2          \* handler runs (effect firings) explored

\* ------------------------------------------------------------ plain values
NoEmail == <<"null">>         \* user.email is null / undefined
NoUser == [uid |-> "none", email |-> NoEmail, displayName |-> ""]
NoCode == "NoCode"            \* response.params.code is absent
NoError == <<>>               \* error state is null
NoDoc == [f \in {"missing"} |-> TRUE]   \* snapshot.exists() is false

Codes == {"X1"}
StateTokens == {"s1", "s2"}

\* Strings the code normalises are sequences of characters.
Lower(c) == IF c = "J" THEN "j" ELSE IF c = "B" THEN "b" ELSE c

ToLowerCase(s) == [i \in 1..Len(s) |-> Lower(s[i])]

RECURSIVE TrimStart(_)
TrimStart(s) == IF s # <<>> /\ Head(s) = " " THEN TrimStart(Tail(s)) ELSE s

RECURSIVE TrimEnd(_)
TrimEnd(s) ==
    IF s # <<>> /\ s[Len(s)] = " " THEN TrimEnd(SubSeq(s, 1, Len(s) - 1)) ELSE s

Trim(s) == TrimEnd(TrimStart(s))

\* LoginScreen.tsx:220  user.email?.trim().toLowerCase()
NormalizeEmail(e) == IF e = NoEmail THEN NoEmail ELSE ToLowerCase(Trim(e))

\* part_000:81  user.email?.toLowerCase()
SimpleNormalizeEmail(e) == IF e = NoEmail THEN NoEmail ELSE ToLowerCase(e)

\* JavaScript truthiness of an optional string: null and "" are falsy
Truthy(e) == e # NoEmail /\ e # <<>>

\* Firebase users signInWithCredential may resolve with
Identities ==
    { [uid |-> "u1", email |-> <<"J", "a">>, displayName |-> "Jane"],
      [uid |-> "u2", email |-> <<" ", "B">>, displayName |-> ""],
      [uid |-> "u3", email |-> <<" ">>, displayName |-> "Blank"],
      [uid |-> "u4", email |-> NoEmail, displayName |-> ""] }

Uids == {i.uid : i \in Identities}

\* ------------------------------------------------------ Firestore documents
\* A document is a function from the field names it holds to their values.
EmptyDoc == [f \in {} |-> ""]

Has(d, f) == f \in DOMAIN d

\* rosterData.name || fallback : missing and empty both fall through
Field(d, f) == IF Has(d, f) THEN d[f] ELSE ""

\* setDoc without merge: the document is replaced by the data
MergeDoc_Overwrite(old, data) == data

\* setDoc(ref, data, { merge: true }) on an existing or missing document
MergeDoc(old, data) ==
    LET base == IF old = NoDoc THEN EmptyDoc ELSE old
    IN  [f \in (DOMAIN base) \cup (DOMAIN data) |->
            IF f \in DOMAIN data THEN data[f] ELSE base[f]]

\* roster collections the importer can have written (keys are normalised)
RosterStores ==
    { [k \in {} |-> EmptyDoc],
      [k \in {<<"j", "a">>} |-> [email |-> <<"j", "a">>, name |-> "Jane R", role |-> "teacher", grade |-> "G5"]],
      [k \in {<<"j", "a">>} |-> [email |-> <<"j", "a">>, name |-> ""]],
      [k \in {<<"b">>} |-> [email |-> <<"b">>, name |-> "", role |-> "student", grade |-> ""]] }

\* a profile another subsystem and an earlier login have already written
ExistingProfile ==
    [uid |-> "u1", email |-> <<"j", "a">>, displayName |-> "Jane the Great",
     role |-> "captain", grade |-> "G4", guildId |-> "g4", lastLoginAt |-> 0, xp |-> 7]

\* a profile whose owner has set a display name; the provider has none for u2
NamedProfile ==
    [uid |-> "u2", email |-> <<"b">>, displayName |-> "Bee", lastLoginAt |-> 0]

UserStores ==
    { [u \in Uids |-> NoDoc],
      [u \in Uids |-> IF u = "u1" THEN ExistingProfile
                      ELSE IF u = "u2" THEN NamedProfile ELSE NoDoc] }

VARIABLES
    variant,         \* which LoginScreen file the app is built with
    codeOwner,       \* the account each authorization code was issued for
    booting,         \* AuthProvider.tsx:17
    ctxUser,         \* AuthProvider.tsx:16  user of the context value
    authUser,        \* auth.currentUser
    authEvents,      \* onAuthStateChanged callbacks not yet delivered
    ensureQ,         \* ensureUserDoc setDoc calls in flight
    roster,          \* Firestore collection roster
    users,           \* Firestore collection users
    clock,           \* serverTimestamp()
    busy,            \* LoginScreen.tsx:35
    error,           \* LoginScreen.tsx:36
    processedCodes,  \* LoginScreen.tsx:38 processedCodesRef.current
    discovery,       \* LoginScreen.tsx:41
    request,         \* LoginScreen.tsx:67
    response,        \* LoginScreen.tsx:67
    state,           \* LoginScreen.tsx:44
    promptOpen,      \* promptAsync() has not resolved yet
    screen,          \* route shown by the navigator
    runs,            \* handler runs, in the order the effect started them
    loading,         \* part_000:24
    exchangeCalls    \* AuthSession.exchangeCodeAsync invocations per code

VARIABLES
    ARGS,            \* import_roster.js:16  command-line flags of the importer run
    rows,            \* import_roster.js:64  normalised rows of the CSV file
    chunkStart,      \* import_roster.js:76  i, the start of the current slice of rows
    pos,             \* import_roster.js:80  next row of the slice (1-based)
    batch,           \* import_roster.js:78  writes staged in the current batch
    created,         \* import_roster.js:71
    updated,         \* import_roster.js:72
    skipped,         \* import_roster.js:73
    unchanged,       \* import_roster.js:74
    ipc,             \* position of the importer process
    staged,          \* batch.set calls made by the current run
    before,          \* roster collection when the current run started
    reports          \* what each finished importer run printed and did

VARIABLES
    storage,         \* AsyncStorage: the keys 'user' and 'isLoggedIn'
    user,            \* part_001:34  user of the AsyncStorage-backed AuthProvider
    authLoading,     \* part_001:35  loading
    checks,          \* checkAuthState calls in flight
    signOutPc,       \* WorldMapScreen.tsx:62-72  position of the sign-out handler
    ctxSignOutPc,    \* part_001:80-89  position of the context's signOut
    mapScreen        \* the screen shown by the navigator of WorldMapScreen

importVars == <<ARGS, rows, chunkStart, pos, batch, created, updated, skipped, unchanged, ipc, staged,
                before, reports>>
storageVars == <<storage, user, authLoading, checks, signOutPc, ctxSignOutPc, mapScreen>>

vars == <<variant, codeOwner, booting, ctxUser, authUser, authEvents, ensureQ, roster, users,
          clock, busy, error, processedCodes, discovery, request, response, state,
          promptOpen, screen, runs, loading, exchangeCalls, importVars, storageVars>>

authVars == <<booting, ctxUser, authUser, authEvents, ensureQ>>
storeVars == <<roster, users, clock>>
hookVars == <<discovery, request, response, state, promptOpen>>

\* --------------------------------------------------------------- responses
\* AuthSession result objects: type and the params the handler reads
Resp(t, c, st, ec, ed) ==
    [type |-> t, code |-> c, state |-> st, errorCode |-> ec, errorDescription |-> ed]

NoResponse == Resp("none", NoCode, "", "", "")
LockedResponse == Resp("locked", NoCode, "", "", "")

\* what the provider redirect (or closing the prompt) can deliver
Responses ==
    { Resp("success", c, st, "", "") : c \in Codes \cup {NoCode}, st \in StateTokens }
    \cup { Resp("error", NoCode, "s1", "access_denied", "denied"),
           Resp("dismiss", NoCode, "", "", ""),
           Resp("cancel", NoCode, "", "", "") }

\* user-facing messages of LoginScreen.tsx: a message is the sequence of the
\* parts its text is put together from
MsgRedirectMismatch ==
    <<"Redirect URI mismatch - make sure your Azure app includes this domain.">>
MsgDomainOnly == <<"Please sign in with your @sagesshs.edu.lb account only.">>
MsgCancelled == <<"Sign-in was cancelled. Please try again.">>
MsgAuthError(detail) == <<"Authentication error: ", detail>>
MsgAuthFailedType(type) == <<"Authentication failed (", type, ").">>
MsgNoCode == <<"No authorization code received from Microsoft.">>
MsgBadState == <<"Invalid authentication state - possible security issue.">>
MsgNoDiscovery == <<"Microsoft discovery failed - unable to get token endpoint.">>
MsgNoVerifier == <<"PKCE verification failed - missing code verifier.">>
MsgNoTokens == <<"No authentication tokens received from Microsoft.">>
MsgNoEmail == <<"No email found in Microsoft account.">>
MsgRejected == <<"err.message">>
MsgGeneric == <<"Authentication failed. Please try again.">>
MsgPromptFailed == <<"Failed to start sign-in process.">>
\* messages of the simple variant
MsgLoginFailed == <<"Login failed. Please try again.">>
MsgSimpleNoEmail == <<"No email found">>
MsgNotAuthorized == <<"Account not authorized">>

\* a || b on strings
OrElse(a, b) == IF a # "" THEN a ELSE b

\* the classification with the response-type tests ahead of the code tests
ErrorMessage_TypeFirst(resp) ==
    IF resp.type = "dismiss" THEN MsgCancelled
    ELSE IF resp.type = "error"
      THEN MsgAuthError(OrElse(resp.errorDescription, OrElse(resp.errorCode, "Unknown error")))
    ELSE IF resp.errorCode = "AADSTS50011" THEN MsgRedirectMismatch
    ELSE IF resp.errorCode = "AADSTS50020" THEN MsgDomainOnly
    ELSE IF resp.errorDescription # "" THEN <<resp.errorDescription>>
    ELSE IF resp.errorCode # "" THEN <<resp.errorCode>>
    ELSE MsgAuthFailedType(resp.type)

\* LoginScreen.tsx:122-136  message for a non-success response
ErrorMessage(resp) ==
    IF resp.errorCode = "AADSTS50011" THEN MsgRedirectMismatch
    ELSE IF resp.errorCode = "AADSTS50020" THEN MsgDomainOnly
    ELSE IF resp.type = "dismiss" THEN MsgCancelled
    ELSE IF resp.type = "error"
      THEN MsgAuthError(OrElse(resp.errorDescription, OrElse(resp.errorCode, "Unknown error")))
    ELSE IF resp.errorDescription # "" THEN <<resp.errorDescription>>
    ELSE IF resp.errorCode # "" THEN <<resp.errorCode>>
    ELSE MsgAuthFailedType(resp.type)

\* a state comparison that accepts every returned state
StateMatches_Loose(returned, expected) == TRUE

\* LoginScreen.tsx:160  returnedState !== state
StateMatches(returned, expected) == returned = expected

\* LoginScreen.tsx:166  processedCodesRef.current.has(code)
IsDuplicate(codes, code) == code \in codes

\* the roster gate left open
RosterExists_Always(store, email) == TRUE

\* LoginScreen.tsx:237 / part_000:89  rosterDoc.exists()
RosterExists(store, email) == email \in DOMAIN store

\* LoginScreen.tsx:248 / part_000:94  rosterDoc.data() || {}
RosterData(store, email) == IF email \in DOMAIN store THEN store[email] ELSE EmptyDoc

\* ------------------------------------------------------------ handler runs
NewRun(resp) ==
    [pc |-> "start", code |-> resp.code, returned |-> resp.state, type |-> resp.type,
     expected |-> state,
     calls |-> {}, ident |-> NoUser, email |-> NoEmail, roster |-> "unknown",
     rdata |-> EmptyDoc, outcome |-> "", exchanged |-> FALSE]

Finished(run, how) == [run EXCEPT !.pc = "done", !.outcome = how]

Called(run, what, next) == [run EXCEPT !.pc = next, !.calls = @ \cup {what}]

RunIds == 1..Len(runs)

CanRun == Len(runs) < MaxRuns

\* AuthProvider.tsx:16-20  nobody is signed in: the listener's first callback
\* will carry null
NoSession ==
    /\ booting = TRUE
    /\ ctxUser = NoUser
    /\ authUser = NoUser
    /\ authEvents = <<NoUser>>
    /\ ensureQ = <<>>

\* the login screen and the stores after construction, before any event
ScreenInit ==
    /\ variant \in {"enhanced", "simple"}
    /\ codeOwner \in [Codes -> Identities]
    /\ roster \in RosterStores
    /\ users \in UserStores
    /\ clock = 0
    /\ busy = FALSE
    /\ error = NoError
    /\ processedCodes = {}
    /\ discovery = "none"
    /\ request = "none"
    /\ response = NoResponse
    /\ state = "s1"
    /\ promptOpen = FALSE
    /\ screen = "Login"
    /\ runs = <<>>
    /\ loading = FALSE
    /\ exchangeCalls = [c \in Codes \cup {NoCode} |-> 0]

\* the app after construction, before any event
AppInit == NoSession /\ ScreenInit

\* the roster importer is not running
ImportOff ==
    /\ ARGS = {}
    /\ rows = <<>>
    /\ chunkStart = 0
    /\ pos = 1
    /\ batch = <<>>
    /\ created = 0
    /\ updated = 0
    /\ skipped = 0
    /\ unchanged = 0
    /\ ipc = "off"
    /\ staged = 0
    /\ before = roster
    /\ reports = <<>>

\* the AsyncStorage-backed build of the app is not running
StorageOff ==
    /\ storage = [user |-> "", isLoggedIn |-> ""]
    /\ user = "null"
    /\ authLoading = TRUE
    /\ checks = <<>>
    /\ signOutPc = "idle"
    /\ ctxSignOutPc = "idle"
    /\ mapScreen = "none"

Init == AppInit /\ ImportOff /\ StorageOff

\* ------------------------------------------------------------ AuthProvider
\* firebaseClient.ts:51-65  the data ensureUserDoc merges into users/<uid>
EnsureUserDocData(u, now) ==
    [uid |-> u.uid,
     email |-> IF u.email = NoEmail THEN <<>> ELSE Trim(ToLowerCase(u.email)),
     displayName |-> u.displayName,
     lastLoginAt |-> now]

\* AuthProvider.tsx:20-24  the auth-state listener up to its await
AuthStateChanged ==
    /\ authEvents # <<>>
    /\ LET u == Head(authEvents) IN
         /\ ctxUser' = u
         /\ IF u # NoUser
              THEN /\ ensureQ' = Append(ensureQ, u)
                   /\ UNCHANGED booting
              ELSE /\ booting' = FALSE
                   /\ UNCHANGED ensureQ
    /\ authEvents' = Tail(authEvents)
    /\ UNCHANGED <<importVars, storageVars>>
    /\ UNCHANGED <<variant, codeOwner, authUser, storeVars, busy, error, processedCodes, hookVars,
                   screen, runs, loading, exchangeCalls>>

\* AuthProvider.tsx:22-23 with firebaseClient.ts:55-64: the write settles
EnsureUserDocDone(ok) ==
    /\ ensureQ # <<>>
    /\ LET u == Head(ensureQ) IN
         IF ok
           THEN /\ users' = [users EXCEPT ![u.uid] = MergeDoc(@, EnsureUserDocData(u, clock + 1))]
                /\ clock' = clock + 1
                /\ booting' = FALSE
           ELSE UNCHANGED <<users, clock, booting>>
    /\ ensureQ' = Tail(ensureQ)
    /\ UNCHANGED <<importVars, storageVars>>
    /\ UNCHANGED <<variant, codeOwner, ctxUser, authUser, authEvents, roster, busy, error,
                   processedCodes, hookVars, screen, runs, loading, exchangeCalls>>

\* auth.currentUser changes; listeners are told when the uid changed
SetCurrentUser(u) ==
    /\ authUser' = u
    /\ authEvents' = IF u.uid # authUser.uid THEN Append(authEvents, u) ELSE authEvents

\* ------------------------------------------- LoginScreen.tsx (enhanced)
\* a catch block that deletes the code of the failed run
AfterFailure_Delete(codes, code) == codes \ {code}

\* LoginScreen.tsx:272-281  catch / finally leave processedCodesRef alone
AfterFailure(codes, code) == codes

\* LoginScreen.tsx:272-281  a throw inside the try block of run i
Fail(i, msg) ==
    /\ error' = msg
    /\ busy' = FALSE
    /\ processedCodes' = AfterFailure(processedCodes, runs[i].code)
    /\ runs' = [runs EXCEPT ![i] = Finished(@, "error")]

\* LoginScreen.tsx:109-195  handleAuthResponse from its start to the first await,
\* run by the effect with the response, discovery and request of that render
HandleAuthResponse(resp, disc, req) ==
    LET run == NewRun(resp)
        code == resp.code
    IN
    IF resp.type # "success"
      THEN /\ error' = ErrorMessage(resp)
           /\ runs' = Append(runs, Finished(run, "nonSuccess"))
           /\ UNCHANGED <<busy, processedCodes, exchangeCalls>>
    ELSE IF code = NoCode
      THEN /\ error' = MsgNoCode
           /\ busy' = FALSE
           /\ runs' = Append(runs, Finished(run, "error"))
           /\ UNCHANGED <<processedCodes, exchangeCalls>>
    ELSE IF ~StateMatches(resp.state, state)
      THEN /\ error' = MsgBadState
           /\ busy' = FALSE
           /\ runs' = Append(runs, Finished(run, "error"))
           /\ UNCHANGED <<processedCodes, exchangeCalls>>
    ELSE IF IsDuplicate(processedCodes, code)
      THEN /\ error' = NoError
           /\ busy' = FALSE
           /\ runs' = Append(runs, Finished(run, "duplicate"))
           /\ UNCHANGED <<processedCodes, exchangeCalls>>
    ELSE IF disc # "ready"
      THEN /\ error' = MsgNoDiscovery
           /\ busy' = FALSE
           /\ processedCodes' = AfterFailure(processedCodes \cup {code}, code)
           /\ runs' = Append(runs, Finished(run, "error"))
           /\ UNCHANGED exchangeCalls
    ELSE IF req # "ready"
      THEN /\ error' = MsgNoVerifier
           /\ busy' = FALSE
           /\ processedCodes' = AfterFailure(processedCodes \cup {code}, code)
           /\ runs' = Append(runs, Finished(run, "error"))
           /\ UNCHANGED exchangeCalls
    ELSE /\ error' = NoError
         /\ busy' = TRUE
         /\ processedCodes' = processedCodes \cup {code}
         /\ exchangeCalls' = [exchangeCalls EXCEPT ![code] = @ + 1]
         /\ runs' = Append(runs, Called(run, "exchange", "awaitExchange"))

\* part_000:45-70  the response effect and handleLoginSuccess up to its await
SimpleEffect(resp) ==
    IF resp.type = "success"
      THEN /\ loading' = TRUE
           /\ error' = NoError
           /\ exchangeCalls' = [exchangeCalls EXCEPT ![resp.code] = @ + 1]
           /\ runs' = Append(runs, Called(NewRun(resp), "exchange", "awaitExchange"))
    ELSE IF resp.type = "error"
      THEN /\ error' = MsgLoginFailed
           /\ loading' = FALSE
           /\ runs' = Append(runs, Finished(NewRun(resp), "nonSuccess"))
           /\ UNCHANGED exchangeCalls
    ELSE /\ runs' = Append(runs, Finished(NewRun(resp), "nonSuccess"))
         /\ UNCHANGED <<error, loading, exchangeCalls>>

Mounted == ~booting /\ screen = "Login"

\* LoginScreen.tsx:87-88,284-285  the effect fires for the render's values;
\* with no response it returns at once
Effect(resp, disc, req) ==
    IF resp = NoResponse
      THEN UNCHANGED <<busy, error, processedCodes, runs, exchangeCalls>>
      ELSE CanRun /\ HandleAuthResponse(resp, disc, req)

\* LoginScreen.tsx:41 / part_000:27  useAutoDiscovery yields a (new) document,
\* with or without a tokenEndpoint (LoginScreen.tsx:174 allows for both);
\* discovery is a dependency of the enhanced effect only (LoginScreen.tsx:285),
\* so the handler runs again for the response that is still current
DiscoveryChanges(d) ==
    /\ Mounted
    /\ discovery' = d
    /\ IF variant = "enhanced"
         THEN Effect(response, d, request)
         ELSE UNCHANGED <<busy, error, processedCodes, runs, exchangeCalls>>
    /\ UNCHANGED <<importVars, storageVars>>
    /\ UNCHANGED <<variant, codeOwner, authVars, storeVars, request, response, state, promptOpen,
                   screen, loading>>

\* LoginScreen.tsx:67-82 / part_000:31-43  useAuthRequest yields a (new) request
\* once discovery is there
RequestChanges ==
    /\ Mounted
    /\ discovery # "none"
    /\ request' = "ready"
    /\ IF variant = "enhanced"
         THEN Effect(response, discovery, "ready")
         ELSE UNCHANGED <<busy, error, processedCodes, runs, exchangeCalls>>
    /\ UNCHANGED <<importVars, storageVars>>
    /\ UNCHANGED <<variant, codeOwner, authVars, storeVars, discovery, response, state, promptOpen,
                   screen, loading>>

\* promptAsync resolves: useAuthRequest sets response and the effect fires
ResponseArrives(resp) ==
    /\ Mounted
    /\ promptOpen
    /\ CanRun
    /\ response' = resp
    /\ promptOpen' = FALSE
    /\ IF variant = "enhanced"
         THEN HandleAuthResponse(resp, discovery, request) /\ UNCHANGED loading
         ELSE SimpleEffect(resp) /\ UNCHANGED <<busy, processedCodes>>
    /\ UNCHANGED <<importVars, storageVars>>
    /\ UNCHANGED <<variant, codeOwner, authVars, storeVars, discovery, request, state, screen>>

\* LoginScreen.tsx:290-318  handleSignIn, reachable while the button is enabled
\* (LoginScreen.tsx:334); a prompt that is already open answers "locked"
HandleSignIn(ok) ==
    /\ Mounted
    /\ variant = "enhanced"
    /\ request # "none"
    /\ ~busy
    /\ processedCodes' = {}
    /\ IF ~ok
         THEN /\ error' = MsgPromptFailed
              /\ UNCHANGED <<promptOpen, response, runs>>
       ELSE IF promptOpen
         THEN /\ CanRun
              /\ response' = LockedResponse
              /\ error' = ErrorMessage(LockedResponse)
              /\ runs' = Append(runs, Finished(NewRun(LockedResponse), "nonSuccess"))
              /\ UNCHANGED promptOpen
       ELSE /\ error' = NoError
            /\ promptOpen' = TRUE
            /\ UNCHANGED <<response, runs>>
    /\ UNCHANGED <<importVars, storageVars>>
    /\ UNCHANGED <<variant, codeOwner, authVars, storeVars, busy, discovery, request, state, screen,
                   loading, exchangeCalls>>

\* part_000:117-129  handleLogin, reachable while the button is enabled (part_000:139)
HandleLogin(ok) ==
    /\ Mounted
    /\ variant = "simple"
    /\ request # "none"
    /\ ~loading
    /\ ~promptOpen
    /\ IF ok
         THEN /\ loading' = TRUE
              /\ error' = NoError
              /\ promptOpen' = TRUE
         ELSE /\ loading' = FALSE
              /\ error' = MsgPromptFailed
              /\ UNCHANGED promptOpen
    /\ UNCHANGED <<importVars, storageVars>>
    /\ UNCHANGED <<variant, codeOwner, authVars, storeVars, busy, processedCodes, discovery, request,
                   response, state, screen, runs, exchangeCalls>>

\* outcomes of the awaited calls
TokenResults == {"rejected", "none", "idToken", "accessToken", "both"}

At(i, where) == i \in RunIds /\ runs[i].pc = where

\* LoginScreen.tsx:197-198  the tokens of the response
HasIdToken(tokens) == tokens \in {"idToken", "both"}
HasAccessToken(tokens) == tokens \in {"accessToken", "both"}

\* a test that wants both tokens
NoTokenIssued_Either(tokens) == ~HasIdToken(tokens) \/ ~HasAccessToken(tokens)

\* LoginScreen.tsx:206  !idToken && !accessToken
NoTokenIssued(tokens) == ~HasIdToken(tokens) /\ ~HasAccessToken(tokens)

\* LoginScreen.tsx:187-219  exchangeCodeAsync settles
ExchangeDone(i, tokens) ==
    /\ variant = "enhanced"
    /\ At(i, "awaitExchange")
    /\ IF tokens = "rejected" THEN Fail(i, MsgRejected)
       ELSE IF NoTokenIssued(tokens) THEN Fail(i, MsgNoTokens)
       ELSE /\ runs' = [runs EXCEPT ![i] = Called([@ EXCEPT !.exchanged = TRUE],
                                                   "signIn", "awaitSignIn")]
            /\ UNCHANGED <<busy, error, processedCodes>>
    /\ UNCHANGED <<importVars, storageVars>>
    /\ UNCHANGED <<variant, codeOwner, authVars, storeVars, hookVars, screen, loading, exchangeCalls>>

\* LoginScreen.tsx:219-235  signInWithCredential settles
SignInDone(i, ok, u) ==
    /\ variant = "enhanced"
    /\ At(i, "awaitSignIn")
    /\ u = codeOwner[runs[i].code]
    /\ IF ~ok
         THEN Fail(i, MsgRejected) /\ UNCHANGED <<authUser, authEvents>>
         ELSE LET email == NormalizeEmail(u.email)
                  run == [runs[i] EXCEPT !.ident = u, !.email = email]
              IN  /\ SetCurrentUser(u)
                  /\ runs' = [runs EXCEPT ![i] =
                        IF ~Truthy(email) THEN Called(run, "signOut", "awaitSignOutNoEmail")
                        ELSE Called(run, "roster", "awaitRoster")]
                  /\ UNCHANGED <<busy, error, processedCodes>>
    /\ UNCHANGED <<importVars, storageVars>>
    /\ UNCHANGED <<variant, codeOwner, booting, ctxUser, ensureQ, storeVars, hookVars, screen,
                   loading, exchangeCalls>>

\* LoginScreen.tsx:229-230  signOut settles (a local operation, taken to
\* succeed), then the throw
SignOutNoEmailDone(i) ==
    /\ variant = "enhanced"
    /\ At(i, "awaitSignOutNoEmail")
    /\ SetCurrentUser(NoUser)
    /\ Fail(i, MsgNoEmail)
    /\ UNCHANGED <<importVars, storageVars>>
    /\ UNCHANGED <<variant, codeOwner, booting, ctxUser, ensureQ, storeVars, hookVars, screen,
                   loading, exchangeCalls>>

\* LoginScreen.tsx:235-252  getDoc(roster/<email>) settles
RosterDone(i, ok) ==
    /\ variant = "enhanced"
    /\ At(i, "awaitRoster")
    /\ IF ~ok
         THEN Fail(i, MsgRejected)
         ELSE LET email == runs[i].email
                  exists == RosterExists(roster, email)
              IN  /\ runs' = [runs EXCEPT ![i] =
                        IF ~exists
                          THEN Called([@ EXCEPT !.roster = "miss"],
                                      "signOut", "awaitSignOutDenied")
                          ELSE Called([@ EXCEPT !.roster = "hit",
                                                !.rdata = RosterData(roster, email)],
                                      "write", "awaitWrite")]
                  /\ UNCHANGED <<busy, error, processedCodes>>
    /\ UNCHANGED <<importVars, storageVars>>
    /\ UNCHANGED <<variant, codeOwner, authVars, storeVars, hookVars, screen, loading, exchangeCalls>>

\* LoginScreen.tsx:239-245  signOut settles, alert, return
SignOutDeniedDone(i) ==
    /\ variant = "enhanced"
    /\ At(i, "awaitSignOutDenied")
    /\ SetCurrentUser(NoUser)
    /\ busy' = FALSE
    /\ runs' = [runs EXCEPT ![i] = Finished(@, "denied")]
    /\ UNCHANGED <<importVars, storageVars>>
    /\ UNCHANGED <<variant, codeOwner, booting, ctxUser, ensureQ, storeVars, error, processedCodes,
                   hookVars, screen, loading, exchangeCalls>>

\* LoginScreen.tsx:260  (rosterData.grade || "").toLowerCase()
GradeToLowerCase(g) == IF g = "G5" THEN "g5" ELSE IF g = "G4" THEN "g4" ELSE g

\* the profile data with the baseline role for everyone
ProfileData_BaselineRole(u, email, rosterData, now) ==
    [uid |-> u.uid,
     email |-> email,
     displayName |-> OrElse(Field(rosterData, "name"), u.displayName),
     role |-> "student",
     grade |-> Field(rosterData, "grade"),
     guildId |-> GradeToLowerCase(Field(rosterData, "grade")),
     lastLoginAt |-> now]

\* LoginScreen.tsx:254-262  the data merged into users/<uid>
ProfileData(u, email, rosterData, now) ==
    [uid |-> u.uid,
     email |-> email,
     displayName |-> OrElse(Field(rosterData, "name"), u.displayName),
     role |-> OrElse(Field(rosterData, "role"), "student"),
     grade |-> Field(rosterData, "grade"),
     guildId |-> GradeToLowerCase(Field(rosterData, "grade")),
     lastLoginAt |-> now]

\* LoginScreen.tsx:252-281  setDoc settles; clear, navigate, finally
WriteDone(i, ok) ==
    /\ variant = "enhanced"
    /\ At(i, "awaitWrite")
    /\ IF ~ok
         THEN Fail(i, MsgRejected) /\ UNCHANGED <<users, clock, screen>>
         ELSE LET run == runs[i] IN
              /\ users' = [users EXCEPT ![run.ident.uid] =
                             MergeDoc(@, ProfileData(run.ident, run.email, run.rdata, clock + 1))]
              /\ clock' = clock + 1
              /\ processedCodes' = {}
              /\ screen' = "WorldMap"
              /\ busy' = FALSE
              /\ runs' = [runs EXCEPT ![i] = Finished(@, "navigated")]
              /\ UNCHANGED error
    /\ UNCHANGED <<importVars, storageVars>>
    /\ UNCHANGED <<variant, codeOwner, authVars, roster, hookVars, loading, exchangeCalls>>

\* ------------------------------------------------ part_000 (simple variant)
\* part_000:110-114  catch of handleLoginSuccess
SimpleFail(i, msg) ==
    /\ error' = msg
    /\ loading' = FALSE
    /\ runs' = [runs EXCEPT ![i] = Finished(@, "error")]

\* part_000:60-79  exchangeCodeAsync settles; a credential without any token throws
SimpleExchangeDone(i, tokens) ==
    /\ variant = "simple"
    /\ At(i, "awaitExchange")
    /\ runs[i].code = NoCode => tokens = "rejected"
    /\ IF tokens \in {"rejected", "none"} THEN SimpleFail(i, MsgRejected)
       ELSE /\ runs' = [runs EXCEPT ![i] = Called([@ EXCEPT !.exchanged = TRUE],
                                                   "signIn", "awaitSignIn")]
            /\ UNCHANGED <<loading, error>>
    /\ UNCHANGED <<importVars, storageVars>>
    /\ UNCHANGED <<variant, codeOwner, authVars, storeVars, busy, processedCodes, hookVars, screen,
                   exchangeCalls>>

\* part_000:79-88  signInWithCredential settles
SimpleSignInDone(i, ok, u) ==
    /\ variant = "simple"
    /\ At(i, "awaitSignIn")
    /\ u = codeOwner[runs[i].code]
    /\ IF ~ok
         THEN SimpleFail(i, MsgRejected) /\ UNCHANGED <<authUser, authEvents>>
         ELSE LET email == SimpleNormalizeEmail(u.email)
                  run == [runs[i] EXCEPT !.ident = u, !.email = email]
              IN  /\ SetCurrentUser(u)
                  /\ IF ~Truthy(email)
                       THEN SimpleFail(i, MsgSimpleNoEmail)
                       ELSE /\ runs' = [runs EXCEPT ![i] = Called(run, "roster", "awaitRoster")]
                            /\ UNCHANGED <<loading, error>>
    /\ UNCHANGED <<importVars, storageVars>>
    /\ UNCHANGED <<variant, codeOwner, booting, ctxUser, ensureQ, storeVars, busy, processedCodes,
                   hookVars, screen, exchangeCalls>>

\* part_000:88-95  getDoc(roster/<email>) settles
SimpleRosterDone(i, ok) ==
    /\ variant = "simple"
    /\ At(i, "awaitRoster")
    /\ IF ~ok
         THEN SimpleFail(i, MsgRejected)
         ELSE LET email == runs[i].email IN
              IF ~RosterExists(roster, email)
                THEN /\ error' = MsgNotAuthorized
                     /\ loading' = FALSE
                     /\ runs' = [runs EXCEPT ![i] = Finished([@ EXCEPT !.roster = "miss"], "error")]
                ELSE /\ runs' = [runs EXCEPT ![i] =
                            Called([@ EXCEPT !.roster = "hit",
                                             !.rdata = RosterData(roster, email)],
                                   "write", "awaitWrite")]
                     /\ UNCHANGED <<loading, error>>
    /\ UNCHANGED <<importVars, storageVars>>
    /\ UNCHANGED <<variant, codeOwner, authVars, storeVars, busy, processedCodes, hookVars, screen,
                   exchangeCalls>>

\* part_000:97-104  the data merged into users/<uid>
SimpleProfileData(u, email, rosterData, now) ==
    [uid |-> u.uid,
     email |-> email,
     displayName |-> OrElse(Field(rosterData, "name"), u.displayName),
     role |-> OrElse(Field(rosterData, "role"), "student"),
     grade |-> Field(rosterData, "grade"),
     lastLoginAt |-> now]

\* part_000:95-114  setDoc settles; navigate
SimpleWriteDone(i, ok) ==
    /\ variant = "simple"
    /\ At(i, "awaitWrite")
    /\ IF ~ok
         THEN SimpleFail(i, MsgRejected) /\ UNCHANGED <<users, clock, screen>>
         ELSE LET run == runs[i] IN
              /\ users' = [users EXCEPT ![run.ident.uid] =
                             MergeDoc(@, SimpleProfileData(run.ident, run.email, run.rdata, clock + 1))]
              /\ clock' = clock + 1
              /\ screen' = "WorldMap"
              /\ runs' = [runs EXCEPT ![i] = Finished(@, "navigated")]
              /\ UNCHANGED <<loading, error>>
    /\ UNCHANGED <<importVars, storageVars>>
    /\ UNCHANGED <<variant, codeOwner, authVars, roster, busy, processedCodes, hookVars, exchangeCalls>>

\* ------------------------------------------------------------ specification
Next ==
    \/ AuthStateChanged
    \/ \E ok \in BOOLEAN : EnsureUserDocDone(ok)
    \/ \E d \in {"noTokenEndpoint", "ready"} : DiscoveryChanges(d)
    \/ RequestChanges
    \/ \E resp \in Responses : ResponseArrives(resp)
    \/ \E ok \in BOOLEAN : HandleSignIn(ok)
    \/ \E ok \in BOOLEAN : HandleLogin(ok)
    \/ \E i \in RunIds, t \in TokenResults : ExchangeDone(i, t)
    \/ \E i \in RunIds, ok \in BOOLEAN, u \in Identities : SignInDone(i, ok, u)
    \/ \E i \in RunIds : SignOutNoEmailDone(i)
    \/ \E i \in RunIds, ok \in BOOLEAN : RosterDone(i, ok)
    \/ \E i \in RunIds : SignOutDeniedDone(i)
    \/ \E i \in RunIds, ok \in BOOLEAN : WriteDone(i, ok)
    \/ \E i \in RunIds, t \in TokenResults : SimpleExchangeDone(i, t)
    \/ \E i \in RunIds, ok \in BOOLEAN, u \in Identities : SimpleSignInDone(i, ok, u)
    \/ \E i \in RunIds, ok \in BOOLEAN : SimpleRosterDone(i, ok)
    \/ \E i \in RunIds, ok \in BOOLEAN : SimpleWriteDone(i, ok)

Spec == Init /\ [][Next]_vars

\* ------------------------------------------------------------------ claims
Enhanced == variant = "enhanced"

\* run i handles a success response that passed the code and state checks
Accepted(i) ==
    /\ runs[i].type = "success"
    /\ runs[i].code # NoCode
    /\ runs[i].returned = state

\* C1: navigation.replace("WorldMap") is reached only by a handler run whose
\* response was a success (with matching state in LoginScreen.tsx), whose
\* exchange and sign-in succeeded, whose identity carries an email, and whose
\* roster lookup for the normalized email found a document.
C1_NavigationOnlyAfterRosterHit ==
    /\ \A i \in RunIds :
          runs[i].outcome = "navigated" =>
            /\ runs[i].type = "success"
            /\ Enhanced => Accepted(i)
            /\ runs[i].exchanged
            /\ runs[i].ident = codeOwner[runs[i].code]
            /\ Truthy(runs[i].email)
            /\ runs[i].email = NormalizeEmail(runs[i].ident.email)
            /\ runs[i].roster = "hit"
            /\ runs[i].email \in DOMAIN roster
    /\ screen = "WorldMap" => \E i \in RunIds : runs[i].outcome = "navigated"

C1_Witness ==
    /\ screen = "WorldMap"
    /\ \E i \in RunIds : runs[i].outcome = "navigated" /\ runs[i].roster = "hit"

\* C3: in LoginScreen.tsx a success response whose returned state differs from
\* the screen's expected state is rejected before any network call: the run
\* that handles it ends at once with the state error and has made no token
\* exchange, no Firebase sign-in or sign-out, no roster read, no profile write.
C3_StateMismatchRejectedBeforeNetwork ==
    Enhanced =>
      \A i \in RunIds :
        (runs[i].type = "success" /\ runs[i].returned # state) =>
          /\ runs[i].calls = {}
          /\ runs[i].pc = "done"
          /\ runs[i].outcome = "error"
          /\ ~runs[i].exchanged
          /\ runs[i].roster = "unknown"

C3_Witness ==
    /\ Enhanced
    /\ error = MsgBadState
    /\ \E i \in RunIds :
          /\ runs[i].type = "success"
          /\ runs[i].code # NoCode
          /\ runs[i].returned # state
          /\ runs[i].pc = "done"

\* runs of the LoginScreen.tsx handler for accepted success responses with code c
RunsFor(c) == {i \in RunIds : Accepted(i) /\ runs[i].code = c}

\* C2: when the LoginScreen.tsx handler has run two or more times for a success
\* response with the same code and a matching state, exchangeCodeAsync has
\* been invoked exactly once for that code.
C2_ExactlyOneExchange ==
    Enhanced =>
      \A c \in Codes : Cardinality(RunsFor(c)) >= 2 => exchangeCalls[c] = 1


\* users/<u> has been written since the start (every write stamps lastLoginAt)
Written(u) == users[u] # NoDoc /\ users[u].lastLoginAt > 0

\* C4: for a sign-in attempt whose normalized email has no roster document, no
\* write to users/<uid> happens: neither the login handler's setDoc nor the
\* ensureUserDoc write of AuthProvider's auth-state listener.
C4_RosterMissWritesNoProfile ==
    \A i \in RunIds : runs[i].roster = "miss" => ~Written(runs[i].ident.uid)

\* C5: whenever a login handler has finished after its roster lookup found no
\* document for the email, it has performed the Firebase sign-out.
C5_RosterMissSignsOut ==
    \A i \in RunIds :
      (runs[i].pc = "done" /\ runs[i].roster = "miss") => "signOut" \in runs[i].calls

\* C6: AuthProvider's context exposes a non-null user only for an identity
\* whose roster lookup has returned a hit.
C6_SessionOnlyAfterRosterHit ==
    (~booting /\ ctxUser # NoUser) =>
      \E i \in RunIds : runs[i].ident = ctxUser /\ runs[i].roster = "hit"


\* this step is the profile write of run i's roster-hit sign-in
IsProfileWrite(i) ==
    /\ i \in DOMAIN runs
    /\ runs[i].pc = "awaitWrite"
    /\ runs'[i].outcome = "navigated"

\* field f of users/<u> has the same value after the step as before it
Preserved(u, f) == Has(users'[u], f) /\ users'[u][f] = users[u][f]

\* the fields the handler's setDoc sets
PayloadFields(i) ==
    IF Enhanced
      THEN DOMAIN ProfileData(runs[i].ident, runs[i].email, runs[i].rdata, 0)
      ELSE DOMAIN SimpleProfileData(runs[i].ident, runs[i].email, runs[i].rdata, 0)

ExchangedOk(c) == \E i \in DOMAIN runs : runs[i].code = c /\ runs[i].exchanged

\* C8 as stated: a code that was successfully exchanged is never removed from
\* the processed-code set afterwards.
C8_ExchangedCodeNeverRemoved ==
    [][Enhanced =>
         \A c \in Codes :
           (c \in processedCodes /\ ExchangedOk(c)) => c \in processedCodes']_vars

\* C8 amended: a code that was successfully exchanged leaves the processed-code
\* set only in the step that completes the sign-in (profile written, then
\* navigation) or in a sign-in press; no failure path, duplicate delivery or
\* other response removes it.
C8_ExchangedCodeRemovedOnlyByClear ==
    [][Enhanced =>
         \A c \in Codes :
           (c \in processedCodes /\ ExchangedOk(c) /\ c \notin processedCodes') =>
             \/ \E i \in DOMAIN runs : IsProfileWrite(i)
             \/ \E ok \in BOOLEAN : HandleSignIn(ok)]_vars

C8_Witness ==
    /\ Enhanced
    /\ \E i \in RunIds :
          /\ runs[i].exchanged
          /\ runs[i].outcome = "error"
          /\ runs[i].code \in processedCodes

\* run i ends in the catch block in this step, after it had added its code
FailsNow(i) ==
    /\ runs'[i].outcome = "error"
    /\ runs'[i].type = "success"
    /\ runs'[i].code # NoCode
    /\ runs'[i].returned = state
    /\ (i \in DOMAIN runs => runs[i].outcome # "error")

\* C9: when the LoginScreen.tsx handler ends in its failure path after having
\* added a code, that code is no longer in the processed-code set when the
\* handler returns.
C9_FailedCodeRemoved ==
    [][Enhanced =>
         \A i \in DOMAIN runs' : FailsNow(i) => runs'[i].code \notin processedCodes']_vars

\* C10: the token exchange is invoked at most once for a given authorization
\* code, across handler re-runs, failures and sign-in presses.
C10_NoSecondExchangeOfACode ==
    Enhanced => \A c \in Codes : exchangeCalls[c] <= 1

\* this step starts a handler run
StartsRun == Len(runs') = Len(runs) + 1

\* the run this step starts
Started == runs'[Len(runs')]

\* this step delivers a success response that passes the code and state checks
\* and whose code is already in the processed-code set
DeliversDuplicate ==
    /\ StartsRun
    /\ Started.type = "success"
    /\ Started.code # NoCode
    /\ Started.returned = state
    /\ Started.code \in processedCodes

\* C11: a delivery of a success response whose code is already in the
\* processed-code set performs no exchange and leaves the busy indicator, the
\* error message, the processed-code set and the session as they were.
C11_DuplicateIsNoOp ==
    [][(Enhanced /\ DeliversDuplicate) =>
         /\ exchangeCalls' = exchangeCalls
         /\ busy' = busy
         /\ error' = error
         /\ processedCodes' = processedCodes
         /\ authUser' = authUser
         /\ ctxUser' = ctxUser]_vars

\* a sign-in was pressed while the prompt of an earlier press is still open:
\* the hook's response is the "locked" answer of the second promptAsync
SecondSignInStarted == promptOpen /\ response = LockedResponse

\* this step delivers the answer of the open prompt
PromptAnswers == promptOpen /\ ~promptOpen'

\* C12: once a second sign-in has been started while the first is still
\* pending, a response that belongs to the first attempt is not accepted.
C12_FirstAttemptInvalidated ==
    [][(Enhanced /\ SecondSignInStarted /\ PromptAnswers) =>
         /\ exchangeCalls' = exchangeCalls
         /\ Started.pc = "done"
         /\ Started.outcome # "duplicate"]_vars

\* run i was rejected by the code or state check
RejectedIntegrity(i) ==
    /\ runs[i].type = "success"
    /\ runs[i].code = NoCode \/ runs[i].returned # runs[i].expected

\* this step is a sign-in press that opens the prompt
OpensPrompt == ~promptOpen /\ promptOpen'

\* C13: a sign-in started after a StateMismatch or MissingCode rejection uses
\* a state token different from the one of the rejected attempt.
C13_RejectedAttemptNotReused ==
    [][(Enhanced /\ OpensPrompt) =>
         \A i \in DOMAIN runs : RejectedIntegrity(i) => state' # runs[i].expected]_vars

\* no handler run is in flight, no prompt is open, the login screen is shown
HandlersCompleted ==
    /\ runs # <<>>
    /\ \A i \in RunIds : runs[i].pc = "done"
    /\ ~promptOpen
    /\ screen = "Login"

\* C14: once the handler has run to completion, whatever the response type
\* and the failure point, the in-progress indicator (busy in LoginScreen.tsx,
\* loading in part_000) is false, so the sign-in button is enabled again.
C14_IndicatorNotStuck == HandlersCompleted => (~busy /\ ~loading)

\* the handler starts on a provider redirect that carries error=access_denied
DeliversAccessDenied == StartsRun /\ response'.errorCode = "access_denied"

\* C15: a provider redirect carrying error=access_denied is reported as the
\* cancelled sign-in (not as a provider/authentication error), with no
\* exchange, and leaves the UI idle.
C15_AccessDeniedIsCancelled ==
    [][(Enhanced /\ DeliversAccessDenied)
         => /\ error' = MsgCancelled
            /\ exchangeCalls' = exchangeCalls
            /\ busy' = busy]_vars

\* ------------------------------------------- provider errors (LoginScreen.tsx)
\* the non-success responses of LoginScreen.tsx:110-113: every type with every
\* params.error and params.error_description
ErrorCodes == {"AADSTS50020", "AADSTS50011", "access_denied", ""}
ErrorDescriptions == {"AADSTS50020: User account does not exist in tenant", ""}

ProviderErrors ==
    { Resp(t, NoCode, "", ec, ed) :
        t \in {"error", "dismiss", "cancel"}, ec \in ErrorCodes, ed \in ErrorDescriptions }

InitErrors ==
    /\ Init
    /\ variant = "enhanced"
    /\ DOMAIN roster = {}
    /\ \A u \in Uids : users[u] = NoDoc
    /\ \A c \in Codes : codeOwner[c].uid = "u1"

NextErrors ==
    \/ AuthStateChanged
    \/ \E d \in {"noTokenEndpoint", "ready"} : DiscoveryChanges(d)
    \/ RequestChanges
    \/ \E ok \in BOOLEAN : HandleSignIn(ok)
    \/ \E resp \in ProviderErrors : ResponseArrives(resp)

SpecErrors == InitErrors /\ [][NextErrors]_vars

\* the handler starts on a non-success response carrying params.error = ec
DeliversErrorCode(ec) ==
    /\ StartsRun
    /\ response'.type \in {"error", "dismiss", "cancel"}
    /\ response'.errorCode = ec

ShowsRaw(msg, ec) == \E k \in DOMAIN msg : msg[k] = ec

\* C16: a non-success response carrying AADSTS50020 shows the domain-restriction
\* message and never the raw code, whatever its type and error description;
\* AADSTS50011 shows the redirect-mismatch message, which is a different one.
C16_KnownCodesMapped ==
    [][/\ DeliversErrorCode("AADSTS50020")
            => error' = MsgDomainOnly /\ ~ShowsRaw(error', "AADSTS50020")
       /\ DeliversErrorCode("AADSTS50011")
            => error' = MsgRedirectMismatch /\ ~ShowsRaw(error', "AADSTS50011")
       /\ MsgRedirectMismatch # MsgDomainOnly]_vars

C16_Witness ==
    /\ runs # <<>>
    /\ runs[Len(runs)].type = "error"
    /\ response.type = "error"
    /\ response.errorCode = "AADSTS50020"
    /\ response.errorDescription # ""
    /\ error = MsgDomainOnly

\* the handler starts on a success response and rejects it at an integrity check
RejectsIntegrity ==
    /\ StartsRun
    /\ Started.pc = "done"
    /\ Started.type = "success"
    /\ (Started.code = NoCode \/ Started.returned # Started.expected)

\* C17: after a missing-code or state-mismatch rejection the error shown is the
\* generic authentication-failed message, the same in both cases.
C17_IntegrityFailureIsGeneric ==
    [][(Enhanced /\ RejectsIntegrity) => error' = MsgGeneric]_vars

\* the token responses a resolved exchange can carry
TokenResponses == TokenResults \ {"rejected"}

\* C18: a token response with neither an identity token nor an access token
\* fails the exchange step and ends the attempt with no sign-in, roster lookup
\* or profile write; with at least one token the attempt goes on to the
\* Firebase sign-in.
C18_NoTokenStopsPipeline ==
    [][\A i \in RunIds :
         /\ \A t \in TokenResponses :
              (Enhanced /\ ExchangeDone(i, t)) =>
                 IF t = "none"
                   THEN /\ runs'[i].pc = "done"
                        /\ runs'[i].outcome = "error"
                        /\ error' = MsgNoTokens
                        /\ runs'[i].calls \cap {"signIn", "roster", "write"} = {}
                   ELSE /\ runs'[i].pc = "awaitSignIn"
                        /\ "signIn" \in runs'[i].calls
         /\ runs[i].pc = "done" => runs'[i] = runs[i]]_vars

C18_Witness ==
    /\ Enhanced
    /\ error = MsgNoTokens
    /\ \E i \in RunIds :
         /\ runs[i].pc = "done"
         /\ runs[i].outcome = "error"
         /\ runs[i].calls = {"exchange"}
         /\ exchangeCalls[runs[i].code] > 0

\* the identity has no email: absent, empty, or empty after trimming
CarriesNoEmail(u) == u.email = NoEmail \/ Trim(u.email) = <<>>

\* signInWithCredential of run i resolves with an identity that has no email
SignsInWithoutEmail(i) ==
    /\ runs[i].pc = "awaitSignIn"
    /\ runs'[i].pc # "awaitSignIn"
    /\ authEvents' # authEvents
    /\ CarriesNoEmail(authUser')

\* C19: when the signed-in identity carries no email, Firebase sign-out is
\* performed and the attempt ends with no roster lookup, profile write or
\* navigation.
C19_NoEmailIsTerminal ==
    [][\A i \in RunIds :
         /\ SignsInWithoutEmail(i) =>
              /\ "signOut" \in runs'[i].calls
              /\ runs'[i].calls \cap {"roster", "write"} = {}
         /\ ("signOut" \in runs[i].calls /\ "roster" \notin runs[i].calls) =>
              /\ runs'[i].calls = runs[i].calls
              /\ runs'[i].outcome # "navigated"]_vars

\* the write of run i has no display name to offer: none in the roster record,
\* none from the provider, while users/<uid> holds a non-empty one
NoNameToWrite(i) ==
    /\ Has(users[runs[i].ident.uid], "displayName")
    /\ users[runs[i].ident.uid].displayName # ""
    /\ Field(runs[i].rdata, "name") = ""
    /\ runs[i].ident.displayName = ""

\* C20: on a roster hit with an existing profile whose displayName is not
\* empty, when neither the roster record nor the provider supplies a name, the
\* displayName of users/<uid> after the write equals its value before.
C20_DisplayNameNotBlanked ==
    [][\A i \in DOMAIN runs :
         (IsProfileWrite(i) /\ NoNameToWrite(i)) =>
           users'[runs[i].ident.uid].displayName = users[runs[i].ident.uid].displayName]_vars

\* C21: on every roster hit the written profile is the document keyed by the
\* signed-in user's uid, its lastLoginAt is refreshed, its role and grade are
\* the roster record's, and its role is the baseline "student" only when the
\* roster record has no role (absent or empty).
C21_ProfileFromRoster ==
    [][\A i \in DOMAIN runs :
         (Enhanced /\ IsProfileWrite(i)) =>
            LET uid == runs[i].ident.uid
                rdata == runs[i].rdata
            IN  /\ runs[i].roster = "hit"
                /\ users'[uid].uid = uid
                /\ \A u \in Uids \ {uid} : users'[u] = users[u]
                /\ users'[uid].lastLoginAt = clock'
                /\ clock' > clock
                /\ users[uid] # NoDoc => users'[uid].lastLoginAt > users[uid].lastLoginAt
                /\ users'[uid].grade = Field(rdata, "grade")
                /\ IF Field(rdata, "role") # ""
                     THEN users'[uid].role = rdata.role
                     ELSE users'[uid].role = "student"]_vars

C21_Witness ==
    /\ Enhanced
    /\ \E i \in RunIds :
         /\ runs[i].outcome = "navigated"
         /\ runs[i].ident.uid = "u1"
         /\ runs[i].rdata = roster[runs[i].email]
         /\ Has(runs[i].rdata, "role")
         /\ users["u1"].role = runs[i].rdata.role
         /\ users["u1"].role # "student"
         /\ users["u1"].grade = runs[i].rdata.grade
         /\ users["u1"].lastLoginAt > 0

\* ----------------------------------------------- roster importer (import_roster.js)
\* import_roster.js:70  rows per batch
CHUNK == 450

\* rows of a short CSV file, and importer runs in a row
MaxRows == 2
MaxImports == 2

Flags == {"--upsert", "--update-changed", "--dry-run"}

\* a mode choice with update-changed as the default
ModeOf_DefaultUpdate(args) ==
    IF "--upsert" \in args THEN "UPSERT"
    ELSE IF "--update-changed" \in args THEN "UPDATE_CHANGED"
    ELSE "UPDATE_CHANGED"

\* import_roster.js:17-21  MODE
ModeOf(args) ==
    IF "--upsert" \in args THEN "UPSERT"
    ELSE IF "--update-changed" \in args THEN "UPDATE_CHANGED"
    ELSE "SKIP_EXISTING"

MODE == ModeOf(ARGS)

\* import_roster.js:22
DRY_RUN == "--dry-run" \in ARGS

\* import_roster.js:36  normEmail: (s || '').trim().toLowerCase()
NormEmail(row) == IF Has(row, "email") THEN ToLowerCase(Trim(row.email)) ELSE <<>>

\* import_roster.js:37  normStr: (s || '').toString().trim(), on the cells used
NormStr(s) == IF s = " " THEN "" ELSE IF s = " G4" THEN "G4" ELSE s

\* import_roster.js:38-47  toDoc
ToDoc(row) ==
    [email |-> NormEmail(row),
     name |-> NormStr(Field(row, "name")),
     role |-> NormStr(OrElse(Field(row, "role"), "student")),
     grade |-> NormStr(OrElse(Field(row, "grade"), ""))]

\* import_roster.js:64  parsed.data.map(toDoc).filter((r) => r.email)
Rows(file) == SelectSeq([n \in 1..Len(file) |-> ToDoc(file[n])], LAMBDA d : d.email # <<>>)

\* the rows a CSV file can hold (Papa.parse with header: true; a short line
\* leaves its last columns undefined)
RawRows ==
    { [name |-> "Jane R", role |-> "teacher", grade |-> "G5", email |-> <<"J", "a">>],
      [name |-> "Jane R", role |-> "teacher", grade |-> " G4", email |-> <<"j", "a", " ">>],
      [name |-> "", email |-> <<" ", "B">>],
      [name |-> "Cy", role |-> " ", grade |-> "G4", email |-> <<"c">>],
      [name |-> "Dee", role |-> "student", grade |-> "G5"] }

RECURSIVE FilesOfLen(_)
FilesOfLen(n) ==
    IF n = 0 THEN {<<>>}
    ELSE {<<r>> \o f : r \in RawRows, f \in FilesOfLen(n - 1)}

\* short files, and files longer than one batch: a full slice of one row, then
\* one more row
LongFiles ==
    { [n \in 1..CHUNK |-> r] \o <<t>> :
        r \in {x \in RawRows : Has(x, "email") /\ x.email = <<"c">>},
        t \in {x \in RawRows : Has(x, "email") /\ x.name # ""} }

Files == UNION {FilesOfLen(n) : n \in 0..MaxRows} \cup LongFiles

\* import_roster.js:49-54  (a[k] ?? '') !== (b[k] ?? '') for some key
OrEmpty(d, k) == IF Has(d, k) THEN d[k] ELSE IF k = "email" THEN <<>> ELSE ""

\* an equality test that leaves the grade out
ShallowEqual_NoGrade(a, b, keys) == \A k \in keys \ {"grade"} : OrEmpty(a, k) = OrEmpty(b, k)

ShallowEqual(a, b, keys) == \A k \in keys : OrEmpty(a, k) = OrEmpty(b, k)

\* import_roster.js:109
DiffKeys == {"name", "role", "grade", "email"}

\* import_roster.js:91-94,120-127,136-143  batch.set(docRef, {...row, <stamp>}, options)
SetOp(row, stampField, merge) == [key |-> row.email, data |-> row, stamp |-> stampField, merge |-> merge]

\* the document a staged write stores when the batch commits at time now
Stamped(op, now) ==
    [f \in (DOMAIN op.data) \cup {op.stamp} |-> IF f = op.stamp THEN now ELSE op.data[f]]

Last(S) == CHOOSE n \in S : \A m \in S : m <= n

\* import_roster.js:149  batch.commit(): the staged writes take effect in staging
\* order. For one document that is: the last write without merge (if any)
\* replaces it, and the merge writes staged after that one are merged in.
CommittedDoc(store, ops, e, now) ==
    LET mine == {n \in DOMAIN ops : ops[n].key = e}
        sets == {n \in mine : ~ops[n].merge}
        from == IF sets = {} THEN 0 ELSE Last(sets)
        base == IF from > 0 THEN Stamped(ops[from], now)
                ELSE IF e \in DOMAIN store THEN store[e] ELSE EmptyDoc
        later == {n \in mine : n > from}
        data == IF later = {} THEN EmptyDoc ELSE Stamped(ops[Last(later)], now)
    IN  IF later = {} THEN base
        ELSE [f \in (DOMAIN base) \cup UNION {DOMAIN Stamped(ops[n], now) : n \in later} |->
                IF \E n \in later : f \in DOMAIN Stamped(ops[n], now)
                  THEN Stamped(ops[Last({n \in later : f \in DOMAIN Stamped(ops[n], now)})], now)[f]
                  ELSE base[f]]

ApplyBatch(store, ops, now) ==
    LET keys == {ops[n].key : n \in DOMAIN ops}
    IN  [e \in (DOMAIN store) \cup keys |->
            IF e \in keys THEN CommittedDoc(store, ops, e, now) ELSE store[e]]

\* import_roster.js:77  rows.slice(i, i + CHUNK)
SliceLen == IF Len(rows) - chunkStart < CHUNK THEN Len(rows) - chunkStart ELSE CHUNK

Report ==
    [args |-> ARGS, before |-> before, after |-> roster, rows |-> Len(rows),
     created |-> created, updated |-> updated, skipped |-> skipped, unchanged |-> unchanged,
     staged |-> staged]

appVars == <<variant, codeOwner, authVars, users, busy, error, processedCodes, hookVars, screen,
             runs, loading, exchangeCalls>>

\* import_roster.js:76  the loop test; after the loop the counts are printed (153-157)
LoopHead ==
    /\ ipc = "loop"
    /\ IF chunkStart < Len(rows)
         THEN /\ batch' = <<>>
              /\ pos' = 1
              /\ ipc' = "slice"
              /\ UNCHANGED reports
         ELSE /\ ipc' = "done"
              /\ reports' = Append(reports, Report)
              /\ UNCHANGED <<batch, pos>>
    /\ UNCHANGED <<ARGS, rows, chunkStart, created, updated, skipped, unchanged, staged, before>>
    /\ UNCHANGED <<appVars, roster, clock, storageVars>>

\* staging a write, unless this is a dry run (import_roster.js:90,119,135)
Stage(op) ==
    IF DRY_RUN THEN UNCHANGED <<batch, staged>>
    ELSE batch' = Append(batch, op) /\ staged' = staged + 1

\* import_roster.js:80-146  one row of the slice: read the document, decide, stage
ProcessRow ==
    /\ ipc = "slice"
    /\ pos <= SliceLen
    /\ LET row == rows[chunkStart + pos]
           exists == row.email \in DOMAIN roster
           existing == IF exists THEN roster[row.email] ELSE EmptyDoc
       IN  IF ~exists
             THEN /\ created' = created + 1
                  /\ Stage(SetOp(row, "importedAt", FALSE))
                  /\ UNCHANGED <<updated, skipped, unchanged>>
           ELSE IF MODE = "SKIP_EXISTING"
             THEN /\ skipped' = skipped + 1
                  /\ UNCHANGED <<created, updated, unchanged, batch, staged>>
           ELSE IF MODE = "UPDATE_CHANGED"
             THEN IF ShallowEqual(existing, row, DiffKeys)
                    THEN /\ unchanged' = unchanged + 1
                         /\ UNCHANGED <<created, updated, skipped, batch, staged>>
                    ELSE /\ updated' = updated + 1
                         /\ Stage(SetOp(row, "updatedAt", TRUE))
                         /\ UNCHANGED <<created, skipped, unchanged>>
           ELSE /\ updated' = updated + 1
                /\ Stage(SetOp(row, "upsertedAt", TRUE))
                /\ UNCHANGED <<created, skipped, unchanged>>
    /\ pos' = pos + 1
    /\ UNCHANGED <<ARGS, rows, chunkStart, ipc, before, reports>>
    /\ UNCHANGED <<appVars, roster, clock, storageVars>>

\* import_roster.js:148-150,76  end of the slice: commit unless dry run (the batch
\* goes out of scope); i += CHUNK
Commit ==
    /\ ipc = "slice"
    /\ pos > SliceLen
    /\ IF DRY_RUN
         THEN UNCHANGED <<roster, clock>>
         ELSE /\ roster' = ApplyBatch(roster, batch, clock + 1)
              /\ clock' = clock + 1
    /\ chunkStart' = chunkStart + CHUNK
    /\ batch' = <<>>
    /\ ipc' = "loop"
    /\ UNCHANGED <<ARGS, rows, pos, created, updated, skipped, unchanged, staged, before,
                   reports>>
    /\ UNCHANGED <<appVars, users, storageVars>>

\* the same command is run again on the same file, with or without --dry-run
StartImport(dry) ==
    /\ ipc = "done"
    /\ Len(reports) < MaxImports
    /\ ARGS' = (ARGS \ {"--dry-run"}) \cup (IF dry THEN {"--dry-run"} ELSE {})
    /\ chunkStart' = 0
    /\ pos' = 1
    /\ batch' = <<>>
    /\ created' = 0
    /\ updated' = 0
    /\ skipped' = 0
    /\ unchanged' = 0
    /\ staged' = 0
    /\ before' = roster
    /\ ipc' = "loop"
    /\ UNCHANGED <<rows, reports>>
    /\ UNCHANGED <<appVars, roster, clock, storageVars>>

\* the importer is started on a CSV file while the app is not in use
InitImport ==
    /\ AppInit
    /\ StorageOff
    /\ variant = "enhanced"
    /\ \A c \in Codes : codeOwner[c].uid = "u1"
    /\ \A u \in Uids : users[u] = NoDoc
    /\ ARGS \in SUBSET Flags
    /\ \E file \in Files : rows = Rows(file)
    /\ chunkStart = 0
    /\ pos = 1
    /\ batch = <<>>
    /\ created = 0
    /\ updated = 0
    /\ skipped = 0
    /\ unchanged = 0
    /\ ipc = "loop"
    /\ staged = 0
    /\ before = roster
    /\ reports = <<>>

NextImport ==
    \/ LoopHead
    \/ ProcessRow
    \/ Commit
    \/ \E dry \in BOOLEAN : StartImport(dry)

SpecImport == InitImport /\ [][NextImport]_vars
\* ------------------------------------------------------- claims: importer
IsDry(r) == "--dry-run" \in r.args

Counts(r) == <<r.created, r.updated, r.unchanged, r.skipped>>

\* C22: a run with --dry-run stages no write and commits nothing, so the roster
\* collection after it equals the collection before it, and its counts are
\* those of a run without --dry-run from the same starting store, in every mode.
C22_DryRunWritesNothingSameCounts ==
    /\ DRY_RUN => (batch = <<>> /\ staged = 0 /\ roster = before)
    /\ \A a \in DOMAIN reports :
         IsDry(reports[a]) =>
           /\ reports[a].after = reports[a].before
           /\ \A b \in DOMAIN reports :
                (~IsDry(reports[b]) /\ reports[b].before = reports[a].before)
                   => Counts(reports[b]) = Counts(reports[a])
\* the command line names no mode
DefaultMode == ARGS \cap {"--upsert", "--update-changed"} = {}

\* C23: in the default skip-if-exists mode a roster document that existed
\* before the run is never modified, and only emails with no existing document
\* are created.
C23_SkipModeKeepsExisting ==
    DefaultMode =>
       /\ \A e \in DOMAIN before : e \in DOMAIN roster /\ roster[e] = before[e]
       /\ \A n \in DOMAIN batch : batch[n].key \notin DOMAIN roster /\ ~batch[n].merge
       /\ \A e \in (DOMAIN roster) \ (DOMAIN before) : \E n \in DOMAIN rows : rows[n].email = e

C23_Witness ==
    /\ ARGS = {}
    /\ ipc = "done"
    /\ created > 0
    /\ skipped > 0
    /\ roster # before
    /\ \E n \in DOMAIN rows :
         /\ rows[n].email \in DOMAIN before
         /\ ~ShallowEqual(before[rows[n].email], rows[n], DiffKeys)
         /\ roster[rows[n].email] = before[rows[n].email]
\* this step processes a row whose roster document exists, in update-changed mode
UpdatesExisting ==
    /\ ipc = "slice"
    /\ pos' = pos + 1
    /\ MODE = "UPDATE_CHANGED"
    /\ rows[chunkStart + pos].email \in DOMAIN roster

\* C24: in update-only-if-changed mode an existing document is written if and
\* only if name, role, grade or email of the normalised row differs from the
\* stored document, a missing field counting as empty (a dry run counts the
\* same and stages nothing); an equal row causes no write and is counted as
\* unchanged.
C24_UpdateIffChanged ==
    [][UpdatesExisting =>
         LET row == rows[chunkStart + pos]
             stored == roster[row.email]
             differs ==
               \/ (IF Has(stored, "name") THEN stored.name ELSE "") # row.name
               \/ (IF Has(stored, "role") THEN stored.role ELSE "") # row.role
               \/ (IF Has(stored, "grade") THEN stored.grade ELSE "") # row.grade
               \/ (IF Has(stored, "email") THEN stored.email ELSE <<>>) # row.email
         IN  /\ ~DRY_RUN => (differs <=> (staged' = staged + 1 /\ Len(batch') = Len(batch) + 1))
             /\ Len(batch') = Len(batch) + 1 =>
                  /\ batch'[Len(batch')].key = row.email
                  /\ batch'[Len(batch')].data = row
                  /\ batch'[Len(batch')].merge
             /\ differs => (updated' = updated + 1 /\ unchanged' = unchanged)
             /\ ~differs =>
                  (unchanged' = unchanged + 1 /\ updated' = updated /\ batch' = batch
                     /\ staged' = staged)
             /\ created' = created /\ skipped' = skipped]_vars

C24_Witness ==
    /\ MODE = "UPDATE_CHANGED"
    /\ ~DRY_RUN
    /\ ipc = "done"
    /\ unchanged > 0
    /\ updated > 0
    /\ staged = updated + created
    /\ \E n \in DOMAIN rows :
         /\ rows[n].email \in DOMAIN before
         /\ Field(before[rows[n].email], "grade") # rows[n].grade
         /\ roster[rows[n].email].grade = rows[n].grade
         /\ Has(roster[rows[n].email], "updatedAt")
\* C30: in update-changed mode a second run on the same file right after a
\* first run stages no write and counts every row as unchanged, for every
\* file (also one that names an email on several rows) and starting store.
C30_UpdateChangedIdempotent ==
    \A a \in DOMAIN reports :
      (/\ a + 1 \in DOMAIN reports
       /\ ModeOf(reports[a].args) = "UPDATE_CHANGED"
       /\ ~IsDry(reports[a])
       /\ ~IsDry(reports[a + 1]))
        => /\ reports[a + 1].staged = 0
           /\ reports[a + 1].unchanged = reports[a + 1].rows
           /\ reports[a + 1].after = reports[a + 1].before
\* ------------------------------- AsyncStorage-backed AuthProvider (part_001)
\* checkAuthState calls in one session
MaxChecks == 2

\* AsyncStorage.getItem yields null for a missing key
NoItem == ""

\* the stored sign-in of an earlier session
StoredUser == "{id:u1}"

\* part_001:60  JSON.parse(userDataString)
ParseUser(str) == IF str = StoredUser THEN "u1" ELSE "null"

\* part_001:59  isLoggedIn === 'true' && userDataString
ValidAuthData(isLoggedIn, userDataString) == isLoggedIn = "true" /\ userDataString # NoItem

NewCheck == [pc |-> "getIsLoggedIn", isLoggedIn |-> NoItem]

CanCheck == Len(checks) < MaxChecks

\* part_001:53  the first getItem of checkAuthState settles; a rejection goes
\* to catch and finally (67-72)
CheckReadFlag(k, ok) ==
    /\ k \in DOMAIN checks
    /\ checks[k].pc = "getIsLoggedIn"
    /\ IF ok
         THEN /\ checks' = [checks EXCEPT ![k] = [pc |-> "getUser", isLoggedIn |-> storage.isLoggedIn]]
              /\ UNCHANGED <<user, authLoading>>
         ELSE /\ checks' = [checks EXCEPT ![k].pc = "done"]
              /\ user' = "null"
              /\ authLoading' = FALSE
    /\ UNCHANGED <<storage, signOutPc, ctxSignOutPc, mapScreen>>
    /\ UNCHANGED <<appVars, roster, clock, importVars>>

\* part_001:54-72  the second getItem settles; setUser, setLoading(false)
CheckReadUser(k, ok) ==
    /\ k \in DOMAIN checks
    /\ checks[k].pc = "getUser"
    /\ checks' = [checks EXCEPT ![k].pc = "done"]
    /\ user' = IF ok /\ ValidAuthData(checks[k].isLoggedIn, storage.user)
                 THEN ParseUser(storage.user) ELSE "null"
    /\ authLoading' = FALSE
    /\ UNCHANGED <<storage, signOutPc, ctxSignOutPc, mapScreen>>
    /\ UNCHANGED <<appVars, roster, clock, importVars>>

\* part_001:41-45  the app comes back to the foreground
AppBecomesActive ==
    /\ CanCheck
    /\ checks' = Append(checks, NewCheck)
    /\ UNCHANGED <<storage, user, authLoading, signOutPc, ctxSignOutPc, mapScreen>>
    /\ UNCHANGED <<appVars, roster, clock, importVars>>

\* part_001:75-78  refreshAuthState
RefreshAuthState ==
    /\ CanCheck
    /\ authLoading' = TRUE
    /\ checks' = Append(checks, NewCheck)
    /\ UNCHANGED <<storage, user, signOutPc, ctxSignOutPc, mapScreen>>
    /\ UNCHANGED <<appVars, roster, clock, importVars>>

\* WorldMapScreen.tsx:50-61  the sign-out button shows the confirmation
HandleSignOut ==
    /\ ~authLoading
    /\ mapScreen = "WorldMap"
    /\ signOutPc = "idle"
    /\ signOutPc' = "alert"
    /\ UNCHANGED <<storage, user, authLoading, checks, ctxSignOutPc, mapScreen>>
    /\ UNCHANGED <<appVars, roster, clock, importVars>>

\* WorldMapScreen.tsx:55-64  Cancel closes the alert; Sign Out starts onPress
AnswerAlert(confirm) ==
    /\ signOutPc = "alert"
    /\ signOutPc' = IF confirm THEN "removeUser" ELSE "idle"
    /\ UNCHANGED <<storage, user, authLoading, checks, ctxSignOutPc, mapScreen>>
    /\ UNCHANGED <<appVars, roster, clock, importVars>>

\* WorldMapScreen.tsx:64,68-71  removeItem('user') settles
RemoveUserDone(ok) ==
    /\ signOutPc = "removeUser"
    /\ IF ok
         THEN storage' = [storage EXCEPT !.user = NoItem] /\ signOutPc' = "removeIsLoggedIn"
         ELSE UNCHANGED storage /\ signOutPc' = "idle"
    /\ UNCHANGED <<user, authLoading, checks, ctxSignOutPc, mapScreen>>
    /\ UNCHANGED <<appVars, roster, clock, importVars>>

\* WorldMapScreen.tsx:65-71  removeItem('isLoggedIn') settles; navigation.replace('Login')
RemoveIsLoggedInDone(ok) ==
    /\ signOutPc = "removeIsLoggedIn"
    /\ IF ok
         THEN storage' = [storage EXCEPT !.isLoggedIn = NoItem] /\ mapScreen' = "Login"
         ELSE UNCHANGED <<storage, mapScreen>>
    /\ signOutPc' = "idle"
    /\ UNCHANGED <<user, authLoading, checks, ctxSignOutPc>>
    /\ UNCHANGED <<appVars, roster, clock, importVars>>

\* part_001:80-82  some consumer of the context calls signOut
ContextSignOut ==
    /\ ~authLoading
    /\ ctxSignOutPc = "idle"
    /\ ctxSignOutPc' = "removeUser"
    /\ UNCHANGED <<storage, user, authLoading, checks, signOutPc, mapScreen>>
    /\ UNCHANGED <<appVars, roster, clock, importVars>>

\* part_001:82-88  the removals of signOut settle; setUser(null) after both
ContextSignOutStep(ok) ==
    /\ ctxSignOutPc \in {"removeUser", "removeIsLoggedIn"}
    /\ IF ~ok
         THEN ctxSignOutPc' = "idle" /\ UNCHANGED <<storage, user>>
       ELSE IF ctxSignOutPc = "removeUser"
         THEN /\ storage' = [storage EXCEPT !.user = NoItem]
              /\ ctxSignOutPc' = "removeIsLoggedIn"
              /\ UNCHANGED user
       ELSE /\ storage' = [storage EXCEPT !.isLoggedIn = NoItem]
            /\ user' = "null"
            /\ ctxSignOutPc' = "idle"
    /\ UNCHANGED <<authLoading, checks, signOutPc, mapScreen>>
    /\ UNCHANGED <<appVars, roster, clock, importVars>>

\* part_001:34-38  the provider mounts and calls checkAuthState; the user is on
\* the World Map once the children render
InitStorage ==
    /\ AppInit
    /\ ImportOff
    /\ variant = "enhanced"
    /\ \A c \in Codes : codeOwner[c].uid = "u1"
    /\ \A u \in Uids : users[u] = NoDoc
    /\ DOMAIN roster = {}
    /\ storage \in [user : {NoItem, StoredUser}, isLoggedIn : {NoItem, "true"}]
    /\ user = "null"
    /\ authLoading = TRUE
    /\ checks = <<NewCheck>>
    /\ signOutPc = "idle"
    /\ ctxSignOutPc = "idle"
    /\ mapScreen = "WorldMap"

NextStorage ==
    \/ \E k \in DOMAIN checks, ok \in BOOLEAN : CheckReadFlag(k, ok)
    \/ \E k \in DOMAIN checks, ok \in BOOLEAN : CheckReadUser(k, ok)
    \/ AppBecomesActive
    \/ RefreshAuthState
    \/ HandleSignOut
    \/ \E confirm \in BOOLEAN : AnswerAlert(confirm)
    \/ \E ok \in BOOLEAN : RemoveUserDone(ok)
    \/ \E ok \in BOOLEAN : RemoveIsLoggedInDone(ok)
    \/ ContextSignOut
    \/ \E ok \in BOOLEAN : ContextSignOutStep(ok)

SpecStorage == InitStorage /\ [][NextStorage]_vars

\* nothing is in flight: what happens next takes a user action
Settled ==
    /\ \A k \in DOMAIN checks : checks[k].pc = "done"
    /\ signOutPc = "idle"
    /\ ctxSignOutPc = "idle"

\* the sign-out of the World Map has removed both keys and shown Login
SignedOutOnMap ==
    /\ mapScreen = "Login"
    /\ storage.user = NoItem
    /\ storage.isLoggedIn = NoItem

\* C25: after the confirmed sign-out of the World Map has removed the stored
\* 'user' and 'isLoggedIn', the AuthProvider's user becomes null with no
\* further user action: once nothing is in flight any more, it is null.
C25_ProviderSeesSignOut == (SignedOutOnMap /\ Settled) => user = "null"
\* ------------------------------------------------ claims: login, continued
\* run i waits for its token exchange, Firebase sign-in, roster lookup or
\* profile write
InFlight(i) == runs[i].pc \in {"awaitExchange", "awaitSignIn", "awaitRoster", "awaitWrite"}

\* C26: while a token exchange, or the sign-in, roster lookup or profile write
\* after it, is in flight in LoginScreen, busy is true (the sign-in button is
\* disabled): nothing sets busy to false before that run has finished.
C26_BusyWhileInFlight == (Enhanced /\ \E i \in RunIds : InFlight(i)) => busy
\* run i got a valid success response and failed before the exchange because
\* the token endpoint or the code verifier was missing
FailedForDependencies(i) ==
    /\ runs[i].pc = "done"
    /\ runs[i].outcome = "error"
    /\ runs[i].type = "success"
    /\ runs[i].code # NoCode
    /\ runs[i].returned = runs[i].expected
    /\ runs[i].calls = {}

\* the handler runs again for the response of run i, now with discovery and
\* request available
RerunsWithDependencies(i) ==
    /\ StartsRun
    /\ response' = response
    /\ Started.type = "success"
    /\ Started.code = runs[i].code
    /\ Started.returned = Started.expected
    /\ discovery' = "ready"
    /\ request' = "ready"

\* C27: when the handler failed for a valid success response only because the
\* token endpoint or the code verifier was not yet available, its re-run for
\* the same response, once both are available, exchanges the code.
C27_RerunExchangesCode ==
    [][\A i \in RunIds :
         (Enhanced /\ FailedForDependencies(i) /\ exchangeCalls[runs[i].code] = 0
            /\ RerunsWithDependencies(i))
           => exchangeCalls'[runs[i].code] = 1]_vars
\* ------------------------------------------------ start with a kept session
\* AuthProvider.tsx:19-24  Firebase restores the session of an earlier start (or
\* none): the listener's first callback carries that user
InitBoot ==
    /\ ScreenInit
    /\ ImportOff
    /\ StorageOff
    /\ \A c \in Codes : codeOwner[c].uid \in {"u1", "u2", "u4"}
    /\ DOMAIN roster = {<<"j", "a">>}
    /\ Has(roster[<<"j", "a">>], "role")
    /\ \A u \in Uids : users[u] = NoDoc
    /\ booting = TRUE
    /\ ctxUser = NoUser
    /\ authUser \in {NoUser} \cup {u \in Identities : u.uid \in {"u1", "u4"}}
    /\ authEvents = <<authUser>>
    /\ ensureQ = <<>>

SpecBoot == InitBoot /\ [][Next]_vars

\* every auth-state callback has been delivered and every ensureUserDoc write
\* has settled
AuthSettled == authEvents = <<>> /\ ensureQ = <<>>

\* C28: after the first auth-state callback (with a user or with null) the
\* provider leaves its booting state, also when the ensureUserDoc write
\* fails: once the callback and its write have settled, booting is false.
C28_BootingEnds == AuthSettled => ~booting
\* C29: after a roster-hit sign-in has completed and every profile write it
\* caused has been applied (the handler's merge write and ensureUserDoc's merge
\* write for the same uid, in either order), the stored displayName is the
\* roster name when that is not empty, and role and grade are the roster's.
C29_RosterValuesSurviveBothWrites ==
    \A i \in RunIds :
      (Enhanced /\ runs[i].outcome = "navigated" /\ AuthSettled) =>
         LET doc == users[runs[i].ident.uid]
             rdata == runs[i].rdata
         IN  /\ Field(rdata, "name") # "" => doc.displayName = rdata.name
             /\ Field(rdata, "role") # "" => doc.role = rdata.role
             /\ doc.grade = Field(rdata, "grade")

====
